---- MODULE Spec2Model ----
(***************************************************************************)
(* A model of the loss-composition code of jinns:                          *)
(*   jinns/loss/_LossODE.py   LossODE and SystemLossODE                    *)
(*   jinns/loss/_Losses.py    dynamic_loss_apply, boundary_condition_apply *)
(*                                                                         *)
(* Python objects are modelled by value, with the aliasing the code        *)
(* creates made explicit: the mapping a caller hands to LossODE is the     *)
(* very object the loss keeps (self.loss_weights = loss_weights), so one   *)
(* variable stands for both.  Optional values are None (the empty          *)
(* sequence) or Some(x) (a one-element sequence).  Floating point numbers  *)
(* are modelled by exact rationals [n, d] in lowest terms.                 *)
(***************************************************************************)
EXTENDS Integers, Sequences, FiniteSets, TLC

VARIABLES
    W,          \* the loss_weights dict of the caller, aliased by LossODE
    W0,         \* the contents W had when the caller created it
    loss,       \* the LossODE object
    params,     \* the params dict of the caller (LossODE)
    params0,    \* the contents params had when the caller created it
    lastEval,   \* the last LossODE.evaluate call: arguments and outcome
    odeOp,      \* the outcome of the last LossODE construction
    odeIn,      \* what the last LossODE construction was given
    copy,       \* the LossODE rebuilt from the flattened loss
    sys,        \* the SystemLossODE object
    sysOp,      \* the last SystemLossODE construction / loss_weights assignment
    sparams,    \* the params_dict of the caller (SystemLossODE)
    sysEval,    \* the last SystemLossODE.evaluate call
    bc,         \* the last boundary_condition_apply call
    termCall,   \* the last observations_loss_apply / sobolev_reg_apply call
    s2s         \* a seq2seq training: the loss, the data generator, the caller

vars == <<W, W0, loss, params, params0, lastEval, odeOp, odeIn, copy,
          sys, sysOp, sparams, sysEval, bc, termCall, s2s>>

odeVars == <<W, W0, loss, params, params0, lastEval, odeOp, odeIn, copy>>
sysVars == <<sys, sysOp, sparams, sysEval>>
\* the state of the calls of the functions of _Losses.py and of the solver
libVars == <<bc, termCall, s2s>>

-----------------------------------------------------------------------------
(* Bounds of the model *)

\* weights supplied by callers range over 0..MaxWeight
MaxWeight == 2
\* network parameters, equation parameters, times and observed values
\* range over 1..MaxVal (0..MaxVal for times)
MaxVal == 2
\* number of samples of a temporal batch (and of a parameter batch)
BatchLen == 2
\* largest trailing dimension of a boundary batch tried
MaxBorderDim == 5
\* the time steps of a seq2seq schedule range over 0..MaxTime
MaxTime == 4
\* a seq2seq schedule has at most MaxPhases intervals
MaxPhases == 3
\* the Tmax of an equation ranges over 1..MaxTmax
MaxTmax == 2

-----------------------------------------------------------------------------
(* Python values *)

None == <<>>
Some(x) == <<x>>
IsNone(v) == v = <<>>
Get(v) == v[1]

\* the loss term keywords
Terms == {"dyn_loss", "initial_condition", "observations"}

\* the names of the equation parameters of params["eq_params"]
EqNames == {"theta", "nu"}

\* the two approximator variants
UKinds == {"PINN", "SPINN"}

-----------------------------------------------------------------------------
(* Exact arithmetic for jnp.mean / jnp.sum *)

RECURSIVE GCD(_, _)
GCD(a, b) == IF b = 0 THEN a ELSE GCD(b, a % b)

Abs(x) == IF x < 0 THEN -x ELSE x

Rat(n, d) ==
    LET g == GCD(Abs(n), d)
    IN  IF n = 0 THEN [n |-> 0, d |-> 1] ELSE [n |-> n \div g, d |-> d \div g]

Zero == [n |-> 0, d |-> 1]
RInt(k) == [n |-> k, d |-> 1]
RAdd(a, b) == Rat(a.n * b.d + b.n * a.d, a.d * b.d)
RScale(k, a) == Rat(k * a.n, a.d)

RECURSIVE SeqSum(_)
SeqSum(s) == IF s = <<>> THEN 0 ELSE Head(s) + SeqSum(Tail(s))

RECURSIVE RSeqSum(_)
RSeqSum(s) == IF s = <<>> THEN Zero ELSE RAdd(Head(s), RSeqSum(Tail(s)))

Sq(x) == x * x

\* jnp.mean of a sequence of integers
Mean(s) == Rat(SeqSum(s), Len(s))

-----------------------------------------------------------------------------
(* The collaborators: approximator, differential operator, batches *)

\* the approximator u(t, params): one output channel
U(t, p) == p.nn_params * t

\* dynamic_loss.evaluate(t, u, params) for one sample: the residual, one
\* channel per broadcast element of the equation parameters
Broadcast(v, j) == IF Len(v) = 1 THEN v[1] ELSE v[j]
MaxLen(a, b) == IF Len(a) >= Len(b) THEN Len(a) ELSE Len(b)
DynEvaluate(op, t, p) ==
    LET th == p.eq_params["theta"]
        nu == p.eq_params["nu"]
    IN  [j \in 1..MaxLen(th, nu) |->
            IF op = "decay"
            THEN p.nn_params + Broadcast(th, j) * U(t, p) - Broadcast(nu, j)
            ELSE p.nn_params - Broadcast(nu, j) * U(t, p) + Broadcast(th, j)]

\* the differential operators a caller may supply
DynOps == {"decay"}

\* temporal batches and parameter batches of BatchLen samples
TemporalBatches == {[i \in 1..BatchLen |-> i - 1], [i \in 1..BatchLen |-> MaxVal]}
ParamArray(k) ==
    IF k = "theta" THEN [i \in 1..BatchLen |-> i] ELSE [i \in 1..BatchLen |-> MaxVal]
ParamBatchDicts ==
    {None} \cup {Some([k \in S |-> ParamArray(k)]) : S \in {{"theta"}, EqNames}}
Batches == [temporal_batch : TemporalBatches, param_batch_dict : ParamBatchDicts]

\* the params dicts a caller creates: scalar equation parameters
FreshParams ==
    {[nn_params |-> n, eq_params |-> [k \in EqNames |-> <<1>>]] : n \in {1, MaxVal}}

\* loss_weights dicts a caller creates for a LossODE
WeightMaps == [Terms -> {0, 1, MaxWeight}]

\* initial_condition arguments: None, a tuple (t0, u0), a list, a 3-tuple
GoodIC == [tuple |-> TRUE, items |-> <<0, 1>>]
ICInputs == {None, Some(GoodIC),
             Some([tuple |-> FALSE, items |-> <<0, 1>>]),
             Some([tuple |-> TRUE, items |-> <<0, 1, 1>>])}

\* obs_batch arguments: None or (times, observed values)
GoodObs == <<[i \in 1..BatchLen |-> i], [i \in 1..BatchLen |-> MaxVal]>>
ObsInputs == {None, Some(GoodObs)}

\* derivative_keys arguments: None, a list, a dict
DKInputs == {[kind |-> "None", keys |-> {}],
             [kind |-> "list", keys |-> {"nn_params", "eq_params"}]}

-----------------------------------------------------------------------------
(* jinns/utils/_utils.py, by its documented contract *)

\* _get_vmap_in_axes_params: the equation parameters mapped along axis 0
\* are those of the parameter batch; none without a parameter batch
GetVmapInAxesParams(param_batch_dict, p) ==
    IF IsNone(param_batch_dict) THEN {} ELSE DOMAIN Get(param_batch_dict)

\* _set_derivatives: the same values; gradients flow only through the
\* top-level keys listed for the term (nn_params when the term is missing)
SetDerivatives(p, term, derivative_keys) ==
    [nn_params |-> p.nn_params, eq_params |-> p.eq_params,
     grad |-> IF term \in DOMAIN derivative_keys
              THEN derivative_keys[term] ELSE {"nn_params"}]

-----------------------------------------------------------------------------
(* jinns/loss/_Losses.py: dynamic_loss_apply *)

\* the parameters of dynamic_loss_apply, in order
DynamicLossApplyParams ==
    <<"dyn_loss", "u", "batches", "params", "vmap_axes", "u_type">>

\* Python's binding of a call with nPos positional arguments and the
\* keyword arguments kw to a function with parameters sig: TypeError when
\* there are too many positionals, an unknown keyword, or a keyword naming
\* a parameter already bound positionally
CallBinds(sig, nPos, kw) ==
    /\ nPos <= Len(sig)
    /\ \A k \in kw : \E i \in 1..Len(sig) : sig[i] = k /\ i > nPos

\* the view sample i has of params under vmap: mapped equation parameters
\* are indexed, the others are passed whole
SampleParams(p, i, vmap_axes) ==
    [p EXCEPT !.eq_params =
        [k \in EqNames |-> IF k \in vmap_axes THEN <<p.eq_params[k][i]>>
                           ELSE p.eq_params[k]]]

SumSq(r) == SeqSum([j \in 1..Len(r) |-> Sq(r[j])])

\* jnp.mean(jnp.sum(residuals**2, axis=-1)) over the samples of the batch
MeanSumSq(dyn_loss, tb, p, vmap_axes) ==
    Mean([i \in 1..Len(tb) |->
            SumSq(DynEvaluate(dyn_loss, tb[i], SampleParams(p, i, vmap_axes)))])

IsClass(u_type, c) == u_type.tag = "class" /\ u_type.cls = c

\* Some(mse_dyn_loss), or None when neither branch binds mse_dyn_loss
dynamic_loss_apply(dyn_loss, u, batches, p, vmap_axes, u_type) ==
    IF IsClass(u_type, "PINN") \/ u = "PINN"
    THEN Some(MeanSumSq(dyn_loss, batches[1], p, vmap_axes))
    ELSE IF IsClass(u_type, "SPINN") \/ u = "SPINN"
    THEN Some(MeanSumSq(dyn_loss, batches[1], p, {}))
    ELSE None

\* a weight passed where a class is expected
AsWeight(w) == [tag |-> "weight", cls |-> "", w |-> w]
AsClass(c) == [tag |-> "class", cls |-> c, w |-> 0]

-----------------------------------------------------------------------------
(* jinns/loss/_LossODE.py: LossODE *)

AllTerms(v) == [k \in Terms |-> v]

\* derivative_keys as stored by __init__: the default for None, a list
\* spread over the three terms
StoredDerivativeKeys(dk) ==
    IF dk.kind = "None" THEN AllTerms({"nn_params"})
    ELSE IF dk.kind = "list" THEN AllTerms(dk.keys)
    ELSE dk.keys

\* a check of initial_condition that accepts a tuple of any length
InitialConditionOK_AnyTuple(ic) ==
    IsNone(ic) \/ Get(ic).tuple

\* the check of initial_condition made by __init__
InitialConditionOK(ic) ==
    IsNone(ic) \/ (Get(ic).tuple /\ Len(Get(ic).items) = 2)

\* the object __init__ builds
LossODE_object(u, dynamic_loss, dk, ic, obs) ==
    [built |-> TRUE,
     u |-> u,
     dynamic_loss |-> dynamic_loss,
     derivative_keys |-> StoredDerivativeKeys(dk),
     initial_condition |-> ic,
     obs_batch |-> obs,
     obs_slice |-> "Ellipsis"]

\* the loss_weights dict after __init__: the caller's dict, with the
\* observations weight overwritten when there is no obs_batch
LossODE_weights(w, obs) ==
    IF IsNone(obs) THEN [w EXCEPT !["observations"] = 0] ELSE w

NoLoss ==
    [built |-> FALSE, u |-> "PINN", dynamic_loss |-> None,
     derivative_keys |-> AllTerms({"nn_params"}),
     initial_condition |-> None, obs_batch |-> None, obs_slice |-> "Ellipsis"]

\* evaluate, lines 159-164: the parameter batch is written into
\* params["eq_params"], the caller's dict
MergeParamBatch(p, batch) ==
    IF IsNone(batch.param_batch_dict) THEN p
    ELSE [p EXCEPT !.eq_params =
            [k \in EqNames |->
                IF k \in DOMAIN Get(batch.param_batch_dict)
                THEN Get(batch.param_batch_dict)[k] ELSE p.eq_params[k]]]

\* evaluate, lines 168-180: the dynamic part; the weight is the sixth
\* positional argument of dynamic_loss_apply, which binds it to u_type
MseDynLoss(self, w, p, batch) ==
    IF ~IsNone(self.dynamic_loss)
    THEN IF ~CallBinds(DynamicLossApplyParams, 6, {}) THEN None
         ELSE dynamic_loss_apply(
            Get(self.dynamic_loss), self.u, <<batch.temporal_batch>>,
            SetDerivatives(p, "dyn_loss", self.derivative_keys),
            GetVmapInAxesParams(batch.param_batch_dict, p),
            AsWeight(w["dyn_loss"]))
    ELSE Some(Zero)

\* the initial condition term with the weight applied to a unit residual
\* when there is no initial condition
MseInitialCondition_WeightOnly(self, w, p) ==
    IF ~IsNone(self.initial_condition)
    THEN LET t0 == Get(self.initial_condition).items[1]
             u0 == Get(self.initial_condition).items[2]
         IN  Mean(<<w["initial_condition"] * Sq(U(t0, p) - u0)>>)
    ELSE RInt(w["initial_condition"])

\* evaluate, lines 182-192: the initial condition
MseInitialCondition(self, w, p) ==
    IF ~IsNone(self.initial_condition)
    THEN LET t0 == Get(self.initial_condition).items[1]
             u0 == Get(self.initial_condition).items[2]
             p_ == SetDerivatives(p, "initial_condition", self.derivative_keys)
         IN  Mean(<<w["initial_condition"] * Sq(U(t0, p_) - u0)>>)
    ELSE Zero

\* evaluate, lines 194-208: the observations
MseObservationLoss(self, w, p) ==
    IF ~IsNone(self.obs_batch)
    THEN LET ts == Get(self.obs_batch)[1]
             obs == Get(self.obs_batch)[2]
             p_ == SetDerivatives(p, "observations", self.derivative_keys)
         IN  RScale(w["observations"],
                    Mean([i \in 1..Len(ts) |-> Sq(U(ts[i], p_) - obs[i])]))
    ELSE Zero

\* evaluate, lines 210-218: the total and the breakdown
LossODE_total(dyn, ic, obs) == RAdd(RAdd(dyn, ic), obs)

LossODE_breakdown(dyn, ic, obs) ==
    [k \in Terms |-> IF k = "dyn_loss" THEN dyn
                     ELSE IF k = "initial_condition" THEN ic ELSE obs]

\* evaluate(params, batch): the outcome, and params as the call leaves it
LossODE_evaluate(self, w, p, batch) ==
    LET merged == MergeParamBatch(p, batch)
        dyn == MseDynLoss(self, w, merged, batch)
        ic == MseInitialCondition(self, w, merged)
        obs == MseObservationLoss(self, w, merged)
    IN  IF IsNone(dyn)
        THEN [outcome |-> "UnboundLocalError", total |-> Zero,
              breakdown |-> AllTerms(Zero), params |-> merged]
        ELSE [outcome |-> "return",
              total |-> LossODE_total(Get(dyn), ic, obs),
              breakdown |-> LossODE_breakdown(Get(dyn), ic, obs),
              params |-> merged]

NoEval ==
    [called |-> FALSE, batch |-> [temporal_batch |-> <<>>, param_batch_dict |-> None],
     pre |-> [nn_params |-> 1, eq_params |-> [k \in EqNames |-> <<1>>]],
     outcome |-> "none", total |-> Zero, breakdown |-> AllTerms(Zero)]

\* tree_flatten, lines 220-227: (children, aux_data)
tree_flatten(self, w) ==
    [children |-> <<self.initial_condition, self.obs_batch, w>>,
     aux_data |-> [u |-> self.u, dynamic_loss |-> self.dynamic_loss,
                   obs_slice |-> self.obs_slice]]

\* tree_unflatten, lines 229-238: cls(loss_weights=..., initial_condition=...,
\* obs_batch=..., **aux_data), derivative_keys left to its default None.
\* The object built and its loss_weights
tree_unflatten(aux_data, children) ==
    [loss |-> [LossODE_object(aux_data.u, aux_data.dynamic_loss,
                              [kind |-> "None", keys |-> {}],
                              children[1], children[2])
                  EXCEPT !.obs_slice = aux_data.obs_slice],
     w |-> LossODE_weights(children[3], children[2])]

NoCopy == [made |-> FALSE, loss |-> NoLoss, w |-> AllTerms(1)]

\* what a construction was given: the initial_condition argument, whether
\* obs_batch was None, the contents of the loss_weights dict
NoOdeIn == [ic |-> None, obsNone |-> TRUE, w |-> AllTerms(1)]

\* LossODE.__init__ on the loss_weights dict w; fresh: the caller made w for
\* this call, otherwise w is the dict W the caller already holds.
\* The ValueError of line 119 is raised before line 123 binds the dict
LossODE_construct(u, w, dynamic_loss, dk, ic, obs, fresh) ==
    /\ odeIn' = [ic |-> ic, obsNone |-> IsNone(obs), w |-> w]
    /\ copy' = NoCopy
    /\ W0' = IF fresh THEN w ELSE W0
    /\ IF InitialConditionOK(ic)
       THEN /\ loss' = LossODE_object(u, dynamic_loss, dk, ic, obs)
            /\ W' = LossODE_weights(w, obs)
            /\ odeOp' = "ok"
            /\ lastEval' = NoEval
       ELSE /\ odeOp' = "ValueError"
            /\ W' = w
            /\ UNCHANGED <<loss, lastEval>>
    /\ UNCHANGED <<params, params0, sysVars, libVars>>

\* loss = LossODE(u, loss_weights, dynamic_loss, derivative_keys,
\*                initial_condition, obs_batch), loss_weights a new dict.
\* __init__ reads nothing of an earlier object: a new object is built once
\* the earlier one is dropped (DiscardODE)
LossODE_init(u, w, dynamic_loss, dk, ic, obs) ==
    /\ ~loss.built
    /\ LossODE_construct(u, w, dynamic_loss, dk, ic, obs, TRUE)

\* loss = LossODE(u, loss_weights, ...), loss_weights the dict the caller
\* made for an earlier construction
LossODE_init_again(u, dynamic_loss, dk, ic, obs) ==
    /\ ~loss.built
    /\ LossODE_construct(u, W, dynamic_loss, dk, ic, obs, FALSE)

\* params = {...}: the caller makes a new params dict
NewParams(p) ==
    /\ params' = p
    /\ params0' = p
    /\ lastEval' = NoEval
    /\ UNCHANGED <<W, W0, loss, odeOp, odeIn, copy, sysVars, libVars>>

\* loss.evaluate(params, batch)
Evaluate(batch) ==
    /\ loss.built
    /\ LET r == LossODE_evaluate(loss, W, params, batch)
       IN  /\ params' = r.params
           /\ lastEval' = [called |-> TRUE, batch |-> batch, pre |-> params,
                           outcome |-> r.outcome, total |-> r.total,
                           breakdown |-> r.breakdown]
    /\ UNCHANGED <<W, W0, loss, params0, odeOp, odeIn, copy, sysVars, libVars>>

\* del loss
DiscardODE ==
    /\ loss.built
    /\ loss' = NoLoss
    /\ odeOp' = "none"
    /\ odeIn' = NoOdeIn
    /\ copy' = NoCopy
    /\ lastEval' = NoEval
    /\ UNCHANGED <<W, W0, params, params0, sysVars, libVars>>

\* children, aux_data = loss.tree_flatten();
\* copy = LossODE.tree_unflatten(aux_data, children), as jit does with a loss
\* it is given.  The constructor writes into the loss_weights dict, which is
\* the one of the loss
TreeRoundTrip ==
    /\ loss.built
    /\ ~copy.made
    /\ LET flat == tree_flatten(loss, W)
           r == tree_unflatten(flat.aux_data, flat.children)
       IN  /\ copy' = [made |-> TRUE, loss |-> r.loss, w |-> r.w]
           /\ W' = r.w
    /\ UNCHANGED <<W0, loss, params, params0, lastEval, odeOp, odeIn, sysVars, libVars>>

NextODE ==
    \/ \E u \in UKinds, w \in WeightMaps, d \in {None} \cup {Some(o) : o \in DynOps},
          dk \in DKInputs, ic \in ICInputs, obs \in ObsInputs :
            LossODE_init(u, w, d, dk, ic, obs)
    \/ \E u \in UKinds, d \in {None} \cup {Some(o) : o \in DynOps},
          dk \in DKInputs, ic \in ICInputs, obs \in ObsInputs :
            LossODE_init_again(u, d, dk, ic, obs)
    \/ \E p \in FreshParams : NewParams(p)
    \/ \E b \in Batches : Evaluate(b)
    \/ DiscardODE

\* derivative_keys arguments that are dicts: gradients of the dynamic part
\* with respect to the equation parameters too
DKDicts ==
    {[kind |-> "dict",
      keys |-> [k \in Terms |-> IF k = "dyn_loss" THEN {"nn_params", "eq_params"}
                                 ELSE {"nn_params"}]]}

NextJit ==
    \/ \E u \in UKinds, w \in WeightMaps, d \in {None} \cup {Some(o) : o \in DynOps},
          dk \in DKInputs \cup DKDicts, ic \in ICInputs, obs \in ObsInputs :
            LossODE_init(u, w, d, dk, ic, obs)
    \/ TreeRoundTrip
    \/ DiscardODE

-----------------------------------------------------------------------------
(* jinns/loss/_LossODE.py: SystemLossODE *)

\* the keys of u_dict, and the keys dictionaries may carry
UKeys == {"x", "y"}
Keys == {"x", "y", "z"}

\* dynamic_loss_dict[k] for the keys used
DynOpOf(k) == IF k = "x" THEN "decay" ELSE "growth"

\* weights: a Python number, or a jnp array of some shape
Num(v) == [kind |-> "num", shape |-> <<>>, v |-> v]
Arr(shape, v) == [kind |-> "array", shape |-> shape, v |-> v]

\* the test of lines 401-404 and 426-429
ScalarWeight(v) ==
    v.kind = "num" \/ (v.kind = "array" /\ (v.shape = <<1>> \/ Len(v.shape) = 0))

\* one entry of a loss_weights dict: a weight, or a dict of weights
Leaf(v) == [nested |-> FALSE, leaf |-> v, dict |-> <<>>]
Nested(d) == [nested |-> TRUE, leaf |-> Num(0), dict |-> d]

\* the key set a nested dict must have (lines 409-424)
ExpectedKeys(self, k) ==
    IF k = "dyn_loss" THEN self.dynamic_loss_dict ELSE self.u_dict

\* one round of the loop, accepting a nested dict whose keys are only
\* some of the expected ones
SetterEntry_SubsetKeys(self, k, v) ==
    IF v.nested
    THEN IF \E kk \in DOMAIN v.dict : ~ScalarWeight(v.dict[kk]) THEN None
         ELSE IF DOMAIN v.dict \subseteq ExpectedKeys(self, k)
              THEN Some([kk \in ExpectedKeys(self, k) |->
                            IF kk \in DOMAIN v.dict THEN v.dict[kk] ELSE Num(0)])
         ELSE None
    ELSE IF ~ScalarWeight(v.leaf) THEN None
         ELSE Some([kk \in ExpectedKeys(self, k) |-> v.leaf])

\* one round of the loop of lines 398-437 on the entry (k, v):
\* Some(the stored dict) or None for ValueError
SetterEntry(self, k, v) ==
    IF v.nested
    THEN IF \E kk \in DOMAIN v.dict : ~ScalarWeight(v.dict[kk]) THEN None
         ELSE IF DOMAIN v.dict = ExpectedKeys(self, k) THEN Some(v.dict)
         ELSE None
    ELSE IF ~ScalarWeight(v.leaf) THEN None
         ELSE Some([kk \in ExpectedKeys(self, k) |-> v.leaf])

\* the loop of lines 397-437 over value.items(), value a sequence of
\* (key, entry) pairs in insertion order, from the empty dict acc
RECURSIVE SetterLoop(_, _, _)
SetterLoop(self, value, acc) ==
    IF value = <<>> THEN [ok |-> TRUE, w |-> acc]
    ELSE LET k == Head(value)[1]
             e == SetterEntry(self, k, Head(value)[2])
         IN  IF IsNone(e) THEN [ok |-> FALSE, w |-> acc]
             ELSE SetterLoop(self, Tail(value),
                    [t \in DOMAIN acc \cup {k} |-> IF t = k THEN Get(e) ELSE acc[t]])

AllNone(d) == \A k \in DOMAIN d : IsNone(d[k])

Put(f, k, v) == [t \in DOMAIN f \cup {k} |-> IF t = k THEN v ELSE f[t]]

\* the special checks writing zeros for the keys of dynamic_loss_dict
SetterSpecial_ZerosOverDynKeys(self, w) ==
    LET zeros == [k \in self.dynamic_loss_dict |-> Num(0)]
        w1 == IF AllNone(self.obs_batch_dict) THEN Put(w, "observations", zeros) ELSE w
    IN  IF AllNone(self.initial_condition_dict)
        THEN Put(w1, "initial_condition", zeros) ELSE w1

\* the special checks of lines 438-442
SetterSpecial(self, w) ==
    LET zeros == [k \in self.u_dict |-> Num(0)]
        w1 == IF AllNone(self.obs_batch_dict) THEN Put(w, "observations", zeros) ELSE w
    IN  IF AllNone(self.initial_condition_dict)
        THEN Put(w1, "initial_condition", zeros) ELSE w1

\* the setter of loss_weights: [ok, w], w being self._loss_weights as the
\* setter leaves it (on ValueError: what the loop had stored)
loss_weights_setter(self, value) ==
    LET r == SetterLoop(self, value, <<>>)
    IN  IF r.ok THEN [ok |-> TRUE, w |-> SetterSpecial(self, r.w)] ELSE r

\* a dictionary argument checked only for the keys of u_dict being there
SharedKeysDict_Superset(u_dict, arg) ==
    IF IsNone(arg) THEN [ok |-> TRUE, d |-> [k \in u_dict |-> None]]
    ELSE [ok |-> u_dict \subseteq DOMAIN Get(arg), d |-> Get(arg)]

\* lines 315-335: a dictionary argument that must share u_dict's keys;
\* [ok, d]
SharedKeysDict(u_dict, arg) ==
    IF IsNone(arg) THEN [ok |-> TRUE, d |-> [k \in u_dict |-> None]]
    ELSE [ok |-> DOMAIN Get(arg) = u_dict, d |-> Get(arg)]

\* lines 337-354: derivative_keys_dict; [ok, d], ok FALSE for the KeyError
\* of line 353
DefaultDynKeys == [k \in {"dyn_loss"} |-> {"nn_params"}]
DerivativeKeysDict(u_dict, dynamic_loss_dict, arg) ==
    LET d0 == IF IsNone(arg)
              THEN [k \in dynamic_loss_dict \cup u_dict |-> None]
              ELSE Get(arg)
    IN  IF \E k \in dynamic_loss_dict : k \notin DOMAIN d0
        THEN [ok |-> FALSE, d |-> d0]
        ELSE [ok |-> TRUE,
              d |-> [k \in DOMAIN d0 |->
                        IF k \in dynamic_loss_dict /\ IsNone(d0[k])
                        THEN Some(DefaultDynKeys) ELSE d0[k]]]

\* the derivative_keys argument LossODE gets from an entry of the dict
AsDKInput(e) ==
    IF IsNone(e) THEN [kind |-> "None", keys |-> {}]
    ELSE [kind |-> "dict", keys |-> Get(e)]

\* lines 365-378: the internal LossODE of solution i and its weights
ConstraintWeights == [k \in Terms |-> IF k = "dyn_loss" THEN 0 ELSE 1]
UConstraint(dk, ic, obs) ==
    [loss |-> LossODE_object("PINN", None, AsDKInput(dk), ic, obs),
     w |-> LossODE_weights(ConstraintWeights, obs)]

NoSys ==
    [built |-> FALSE, u_dict |-> {}, dynamic_loss_dict |-> {},
     obs_batch_dict |-> <<>>, initial_condition_dict |-> <<>>,
     derivative_keys_dict |-> <<>>, loss_weights |-> <<>>,
     u_constraints_dict |-> <<>>]

\* SystemLossODE.__init__: [outcome, assigned (line 359 was reached), self]
SystemLossODE_new(u_dict, value, dynamic_loss_dict, dkArg, icArg, obsArg) ==
    LET obs == SharedKeysDict(u_dict, obsArg)
        ic == SharedKeysDict(u_dict, icArg)
        dk == DerivativeKeysDict(u_dict, dynamic_loss_dict, dkArg)
        self0 == [NoSys EXCEPT !.u_dict = u_dict,
                               !.dynamic_loss_dict = dynamic_loss_dict,
                               !.obs_batch_dict = obs.d,
                               !.initial_condition_dict = ic.d,
                               !.derivative_keys_dict = dk.d]
        lw == loss_weights_setter(self0, value)
        raise(e, a) == [outcome |-> e, assigned |-> a, self |-> NoSys]
    IN  IF ~obs.ok \/ ~ic.ok THEN raise("ValueError", FALSE)
        ELSE IF ~dk.ok THEN raise("KeyError", FALSE)
        ELSE IF ~lw.ok THEN raise("ValueError", TRUE)
        ELSE IF \E i \in u_dict : i \notin DOMAIN dk.d THEN raise("KeyError", TRUE)
        ELSE IF \E i \in u_dict : ~InitialConditionOK(ic.d[i])
             THEN raise("ValueError", TRUE)
        ELSE [outcome |-> "ok", assigned |-> TRUE,
              self |-> [self0 EXCEPT
                  !.built = TRUE,
                  !.loss_weights = lw.w,
                  !.u_constraints_dict =
                      [i \in u_dict |-> UConstraint(dk.d[i], ic.d[i], obs.d[i])]]]

\* lines 489-500: dyn_loss_for_one_key; the call of dynamic_loss_apply
\* passes six positional arguments and u_type=PINN.  None for TypeError
dyn_loss_for_one_key(self, k, p, batch) ==
    IF ~CallBinds(DynamicLossApplyParams, 6, {"u_type"}) THEN None
    ELSE dynamic_loss_apply(
            DynOpOf(k), "dict", <<batch.temporal_batch>>,
            SetDerivatives(p, "dyn_loss", Get(self.derivative_keys_dict[k])),
            GetVmapInAxesParams(batch.param_batch_dict, p),
            AsClass("PINN"))

\* the keys of a set in a fixed order (dict iteration)
KeyRank(k) == IF k = "x" THEN 1 ELSE IF k = "y" THEN 2 ELSE 3
RECURSIVE KeySeq(_)
KeySeq(S) ==
    IF S = {} THEN <<>>
    ELSE LET k == CHOOSE x \in S : \A y \in S : KeyRank(x) <= KeyRank(y)
         IN  <<k>> \o KeySeq(S \ {k})

\* lines 502-510: tree_map of dyn_loss_for_one_key over dynamic_loss_dict,
\* then tree_reduce of the leaves with no initializer.
\* Some(mse_dyn_loss), or None for TypeError
SystemMseDynLoss(self, p, batch) ==
    LET ks == KeySeq(self.dynamic_loss_dict)
        leaves == [i \in 1..Len(ks) |-> dyn_loss_for_one_key(self, ks[i], p, batch)]
    IN  IF \E i \in 1..Len(ks) : IsNone(leaves[i]) THEN None
        ELSE IF Len(ks) = 0 THEN None
        ELSE Some(RSeqSum([i \in 1..Len(ks) |-> Get(leaves[i])]))

\* constraints_system_loss_apply, by its documented contract: every
\* internal LossODE is evaluated, its terms are weighted by the system's
\* weights and summed term-wise
constraints_system_loss_apply(u_constraints_dict, batch, p, loss_weights) ==
    LET ks == KeySeq(DOMAIN u_constraints_dict)
        ev(i) == LossODE_evaluate(u_constraints_dict[ks[i]].loss,
                                  u_constraints_dict[ks[i]].w, p, batch)
        res == [t \in Terms |->
                  RSeqSum([i \in 1..Len(ks) |->
                      IF t = "dyn_loss" THEN ev(i).breakdown[t]
                      ELSE RScale(loss_weights[t][ks[i]].v, ev(i).breakdown[t])])]
    IN  [total |-> RAdd(RAdd(res["dyn_loss"], res["initial_condition"]),
                        res["observations"]),
         res_dict |-> res]

\* params_dict["nn_params"]: shared parameters, or a dict with some keys
NNShared == [dict |-> FALSE, keys |-> {}]
NNDict(S) == [dict |-> TRUE, keys |-> S]

\* evaluate with the keys of nn_params checked after the parameter batch
\* is written into params_dict
SystemLossODE_evaluate_CheckAfterMerge(self, p, batch) ==
    LET merged == MergeParamBatch(p, batch)
        dyn == SystemMseDynLoss(self, merged, batch)
        fail(e, q) == [outcome |-> e, total |-> Zero,
                       breakdown |-> AllTerms(Zero), params |-> q]
    IN  IF p.nn_keys.dict /\ self.u_dict # p.nn_keys.keys
        THEN fail("ValueError", merged)
        ELSE IF IsNone(dyn) THEN fail("TypeError", merged)
        ELSE fail("KeyError", merged)

\* SystemLossODE.evaluate(params_dict, batch): the outcome, and
\* params_dict as the call leaves it
SystemLossODE_evaluate(self, p, batch) ==
    LET merged == MergeParamBatch(p, batch)
        dyn == SystemMseDynLoss(self, merged, batch)
        c == constraints_system_loss_apply(
                self.u_constraints_dict, batch, merged, self.loss_weights)
        fail(e, q) == [outcome |-> e, total |-> Zero,
                       breakdown |-> AllTerms(Zero), params |-> q]
    IN  IF p.nn_keys.dict /\ self.u_dict # p.nn_keys.keys
        THEN fail("ValueError", p)
        ELSE IF "dyn_loss" \notin DOMAIN self.loss_weights
        THEN fail("KeyError", merged)
        ELSE IF IsNone(dyn) THEN fail("TypeError", merged)
        ELSE IF ~(Terms \subseteq DOMAIN self.loss_weights)
        THEN fail("KeyError", merged)
        ELSE [outcome |-> "return",
              total |-> RAdd(c.total, Get(dyn)),
              breakdown |-> [c.res_dict EXCEPT !["dyn_loss"] = RAdd(@, Get(dyn))],
              params |-> merged]

-----------------------------------------------------------------------------
(* Arguments callers pass to SystemLossODE *)

\* dictionaries over solution keys: omitted, or given with some key set
\* (a missing key, an extra key, u_dict's keys), with a value for no key, for
\* "x" only, or for every key
DictArgs(v) ==
    {None} \cup {Some([k \in sg[1] |-> IF k \in sg[2] THEN Some(v) ELSE None]) :
                    sg \in {<<{"x"}, {}>>, <<Keys, {}>>,
                            <<UKeys, {}>>, <<UKeys, {"x"}>>, <<UKeys, UKeys>>}}

ObsDictArgs == DictArgs(GoodObs)
ICDictArgs == DictArgs(GoodIC)

\* derivative_keys_dict: omitted, or given for some keys
DKDictArgs ==
    {None} \cup {Some([k \in S |-> Some(AllTerms({"nn_params", "eq_params"}))]) :
                    S \in {{"x"}, UKeys, Keys}}

\* key sets of dynamic_loss_dict
DynKeySets == {{}, {"x"}, UKeys}

\* entries of a loss_weights dict
WeightEntries(t) ==
    IF t = "observations"
    THEN {Leaf(Num(1)), Leaf(Arr(<<2>>, 1)), Nested([k \in {"x"} |-> Num(1)])}
    ELSE
    {Leaf(Num(1)), Leaf(Num(MaxWeight)), Leaf(Arr(<<1>>, 1)), Leaf(Arr(<<2>>, 1)),
     Nested([k \in {"x"} |-> Num(1)]),
     Nested([k \in UKeys |-> IF k = "x" THEN Num(1) ELSE Num(MaxWeight)]),
     Nested([k \in UKeys |-> IF k = "x" THEN Num(1) ELSE Arr(<<2>>, 1)])}

\* loss_weights dicts: the terms in insertion order, some possibly left out
TermOrder == <<"dyn_loss", "initial_condition", "observations">>
RECURSIVE WeightValuesFrom(_)
WeightValuesFrom(i) ==
    IF i > Len(TermOrder) THEN {<<>>}
    ELSE LET rest == WeightValuesFrom(i + 1)
         IN  {<<<<TermOrder[i], e>>>> \o r : e \in WeightEntries(TermOrder[i]), r \in rest}
SysWeightValues ==
    WeightValuesFrom(1) \cup WeightValuesFrom(2)

\* the loss_weights dicts tried at construction
IsLeafOne(e) == e = Leaf(Num(1))
InitWeightValues ==
    {v \in SysWeightValues :
        Cardinality({i \in 1..Len(v) : ~IsLeafOne(v[i][2])}) <= 1}

\* scalar weights only
SimpleWeightValues ==
    {<<<<"dyn_loss", Leaf(Num(a))>>, <<"initial_condition", Leaf(Num(b))>>,
       <<"observations", Leaf(Num(b))>>>> : a \in {1, MaxWeight}, b \in {1, MaxWeight}}
      \cup {<<<<"initial_condition", Leaf(Num(1))>>, <<"observations", Leaf(Num(1))>>>>}

\* params_dict of a caller of SystemLossODE.evaluate
FreshSysParams ==
    {[nn_keys |-> nk, nn_params |-> 1, eq_params |-> [k \in EqNames |-> <<1>>]] :
        nk \in {NNShared, NNDict(UKeys), NNDict({"x"}), NNDict(Keys)}}

-----------------------------------------------------------------------------
(* The operations on a SystemLossODE *)

NoSysEval ==
    [called |-> FALSE, batch |-> [temporal_batch |-> <<>>, param_batch_dict |-> None],
     pre |-> [nn_keys |-> NNShared, nn_params |-> 1,
              eq_params |-> [k \in EqNames |-> <<1>>]],
     outcome |-> "none", total |-> Zero, breakdown |-> AllTerms(Zero)]

\* what the last construction / assignment was given: a weight with more
\* than one element, a nested dict with an unexpected key set, an
\* obs_batch_dict / initial_condition_dict that is omitted or whose keys
\* differ from u_dict's, the keys of derivative_keys_dict and of
\* dynamic_loss_dict, the terms given one weight for all keys
NumElems(v) ==
    IF v.kind = "num" THEN 1
    ELSE IF Len(v.shape) = 0 THEN 1
    ELSE IF Len(v.shape) = 1 THEN v.shape[1] ELSE v.shape[1] * v.shape[2]
HasVector(value) ==
    \E i \in 1..Len(value) :
        LET e == value[i][2]
        IN  IF e.nested THEN \E kk \in DOMAIN e.dict : NumElems(e.dict[kk]) > 1
            ELSE NumElems(e.leaf) > 1
HasKeyMismatch(u_dict, dynamic_loss_dict, value) ==
    \E i \in 1..Len(value) :
        LET k == value[i][1]
            e == value[i][2]
        IN  e.nested /\ DOMAIN e.dict #
                (IF k = "dyn_loss" THEN dynamic_loss_dict ELSE u_dict)
KeysDiffer(u_dict, arg) == ~IsNone(arg) /\ DOMAIN Get(arg) # u_dict
\* the keys of a dictionary argument, None when it is omitted
KeysOf(arg) == IF IsNone(arg) THEN None ELSE Some(DOMAIN Get(arg))
\* the terms of value given one weight for all keys, with that weight
ScalarsOf(value) ==
    LET given == {i \in 1..Len(value) : ~value[i][2].nested}
    IN  [t \in {value[i][1] : i \in given} |->
            (CHOOSE e \in {value[i] : i \in given} : e[1] = t)[2].leaf]

NoSysOp ==
    [op |-> "none", outcome |-> "none", assigned |-> FALSE,
     vector |-> FALSE, keyMismatch |-> FALSE,
     obsDiffer |-> FALSE, icDiffer |-> FALSE, obsOmitted |-> FALSE,
     icOmitted |-> FALSE, dkKeys |-> None, dynKeys |-> {}, scalars |-> <<>>]

\* loss = SystemLossODE(u_dict, loss_weights, dynamic_loss_dict,
\*                      derivative_keys_dict, initial_condition_dict,
\*                      obs_batch_dict)
SystemLossODE_init(u_dict, value, dynamic_loss_dict, dkArg, icArg, obsArg) ==
    /\ ~sys.built
    /\ sysOp.op = "none"
    /\ LET r == SystemLossODE_new(u_dict, value, dynamic_loss_dict, dkArg, icArg, obsArg)
       IN  /\ sys' = r.self
           /\ sysOp' = [op |-> "init", outcome |-> r.outcome,
                        assigned |-> r.assigned,
                        vector |-> HasVector(value),
                        keyMismatch |-> HasKeyMismatch(u_dict, dynamic_loss_dict, value),
                        obsDiffer |-> KeysDiffer(u_dict, obsArg),
                        icDiffer |-> KeysDiffer(u_dict, icArg),
                        obsOmitted |-> IsNone(obsArg),
                        icOmitted |-> IsNone(icArg),
                        dkKeys |-> KeysOf(dkArg),
                        dynKeys |-> dynamic_loss_dict,
                        scalars |-> ScalarsOf(value)]
    /\ sysEval' = NoSysEval
    /\ UNCHANGED <<odeVars, sparams, libVars>>

\* loss.loss_weights = value
SetLossWeights(value) ==
    /\ sys.built
    /\ LET r == loss_weights_setter(sys, value)
       IN  /\ sys' = [sys EXCEPT !.loss_weights = r.w]
           /\ sysOp' = [op |-> "set",
                        outcome |-> IF r.ok THEN "ok" ELSE "ValueError",
                        assigned |-> TRUE,
                        vector |-> HasVector(value),
                        keyMismatch |->
                            HasKeyMismatch(sys.u_dict, sys.dynamic_loss_dict, value),
                        obsDiffer |-> FALSE, icDiffer |-> FALSE,
                        obsOmitted |-> FALSE, icOmitted |-> FALSE,
                        dkKeys |-> None, dynKeys |-> sys.dynamic_loss_dict,
                        scalars |-> ScalarsOf(value)]
    /\ UNCHANGED <<odeVars, sparams, sysEval, libVars>>

\* del loss, or the exception of a refused construction is handled
Discard ==
    /\ sysOp.op # "none"
    /\ sys' = NoSys
    /\ sysOp' = NoSysOp
    /\ sysEval' = NoSysEval
    /\ UNCHANGED <<odeVars, sparams, libVars>>

\* params_dict = {...}
NewSysParams(p) ==
    /\ sparams' = p
    /\ sysEval' = NoSysEval
    /\ UNCHANGED <<odeVars, sys, sysOp, libVars>>

\* loss.evaluate(params_dict, batch)
SysEvaluate(batch) ==
    /\ sys.built
    /\ LET r == SystemLossODE_evaluate(sys, sparams, batch)
       IN  /\ sparams' = r.params
           /\ sysEval' = [called |-> TRUE, batch |-> batch, pre |-> sparams,
                          outcome |-> r.outcome, total |-> r.total,
                          breakdown |-> r.breakdown]
    /\ UNCHANGED <<odeVars, sys, sysOp, libVars>>

NextSys ==
    \/ \E uk \in {UKeys}, v \in InitWeightValues, dyn \in DynKeySets,
          dk \in DKDictArgs, ic \in ICDictArgs, obs \in ObsDictArgs :
            SystemLossODE_init(uk, v, dyn, dk, ic, obs)
    \/ \E v \in SysWeightValues : SetLossWeights(v)
    \/ Discard

NextSysEval ==
    \/ \E v \in SimpleWeightValues, dyn \in DynKeySets,
          ic \in {None, Some([k \in UKeys |-> Some(GoodIC)])},
          obs \in {None, Some([k \in UKeys |-> IF k = "x" THEN Some(GoodObs) ELSE None])} :
            SystemLossODE_init(UKeys, v, dyn, None, ic, obs)
    \/ \E p \in FreshSysParams : NewSysParams(p)
    \/ \E b \in Batches : SysEvaluate(b)
    \/ Discard

-----------------------------------------------------------------------------
(* jinns/loss/_Losses.py: boundary_condition_apply *)

\* the facet_tree of lines 102 and 105 (xmin, xmax, ymin, ymax by position):
\* the index of each facet
FacetTree(n) == [i \in 1..n |-> i - 1]

\* jinns.loss._boundary_conditions._compute_boundary_loss, by its documented
\* contract, averaged by jnp.mean: the squared deviation of the border
\* values of facet fa
ComputeBoundaryLoss(border, fa) == RInt(Sq(border[fa + 1]))

\* boundary_condition_apply for a border batch whose trailing dimension is
\* Len(border).  isDict: omega_boundary_fun is a dict; conds: the condition
\* of each facet given, by position (None: no condition).
\* [outcome, facets (the facets iterated over), value]
boundary_condition_apply(border, isDict, conds) ==
    LET dim == Len(border)
        raise(e) == [outcome |-> e, facets |-> {}, value |-> Zero]
        done(fs) ==
            IF fs = {} THEN raise("TypeError")
            ELSE [outcome |-> "return", facets |-> fs,
                  value |-> RSeqSum([i \in 1..dim |->
                      IF (i - 1) \in fs THEN ComputeBoundaryLoss(border, i - 1)
                      ELSE Zero])]
    IN  IF isDict
        THEN IF dim # 2 /\ dim # 4 THEN raise("ValueError")
             ELSE IF Len(conds) # dim THEN raise("ValueError")
             ELSE done({FacetTree(dim)[i] : i \in {j \in 1..dim : ~IsNone(conds[j])}})
        ELSE done({f : f \in 0..(dim - 1)})

\* border batches: one value per facet
Borders == UNION {[1..d -> 0..MaxVal] : d \in 0..MaxBorderDim}
\* conditions given by facet
CondDicts == UNION {[1..d -> {None, Some("dirichlet")}] : d \in {2, 4}}

NoBC ==
    [called |-> FALSE, dim |-> 0, isDict |-> FALSE, outcome |-> "none",
     facets |-> {}, value |-> Zero]

\* boundary_condition_apply(u, batch, params, omega_boundary_fun,
\*                          omega_boundary_condition, omega_boundary_dim)
BoundaryApply(border, isDict, conds) ==
    /\ ~bc.called
    /\ LET r == boundary_condition_apply(border, isDict, conds)
       IN  bc' = [called |-> TRUE, dim |-> Len(border), isDict |-> isDict,
                  outcome |-> r.outcome, facets |-> r.facets, value |-> r.value]
    /\ UNCHANGED <<odeVars, sysVars, termCall, s2s>>

\* the result is dropped
ForgetBC ==
    /\ bc.called
    /\ bc' = NoBC
    /\ UNCHANGED <<odeVars, sysVars, termCall, s2s>>

NextBC ==
    \/ \E border \in Borders, conds \in CondDicts : BoundaryApply(border, TRUE, conds)
    \/ \E border \in Borders : BoundaryApply(border, FALSE, <<>>)
    \/ ForgetBC

-----------------------------------------------------------------------------
(* jinns/loss/_Losses.py: observations_loss_apply, sobolev_reg_apply *)

\* what a caller may pass as u: a PINN, a SPINN, an object of another class
UObjects == UKinds \cup {"dict"}

\* jinns.utils._utils._check_user_func_return, by its documented contract:
\* the reference values in the shape of the predicted ones, a single value
\* standing for every sample
CheckUserFuncReturn(r, n) == IF Len(r) = 1 THEN [i \in 1..n |-> r[1]] ELSE r

\* the regularizer a caller supplies to sobolev_reg_apply, for one sample
SobolevReg(t, p) == Sq(p.nn_params) + Sq(U(t, p))

TermReturn(v) == [outcome |-> "return", value |-> v]
TermRaise(e) == [outcome |-> e, value |-> Zero]

\* observations_loss_apply with a SPINN handled by the branch of a PINN
observations_loss_apply_AnyKind(u, batches, p, vmap_axes, observed_values) ==
    IF u = "PINN" \/ u = "SPINN"
    THEN LET tb == batches[1]
             obs == CheckUserFuncReturn(observed_values, Len(tb))
         IN  TermReturn(Mean([i \in 1..Len(tb) |->
                 Sq(U(tb[i], SampleParams(p, i, vmap_axes)) - obs[i])]))
    ELSE TermRaise("UnboundLocalError")

\* lines 141-159; with u neither a PINN nor a SPINN the return statement
\* reads a name no branch has bound
observations_loss_apply(u, batches, p, vmap_axes, observed_values) ==
    IF u = "PINN"
    THEN LET tb == batches[1]
             obs == CheckUserFuncReturn(observed_values, Len(tb))
         IN  TermReturn(Mean([i \in 1..Len(tb) |->
                 Sq(U(tb[i], SampleParams(p, i, vmap_axes)) - obs[i])]))
    ELSE IF u = "SPINN" THEN TermRaise("RuntimeError")
    ELSE TermRaise("UnboundLocalError")

\* lines 193-204
sobolev_reg_apply(u, batches, p, vmap_axes, sobolev_reg) ==
    IF u = "PINN"
    THEN LET tb == batches[1]
         IN  TermReturn(Mean([i \in 1..Len(tb) |->
                 SobolevReg(tb[i], SampleParams(p, i, vmap_axes))]))
    ELSE IF u = "SPINN" THEN TermRaise("RuntimeError")
    ELSE TermRaise("UnboundLocalError")

\* batches of samples and reference values: one per sample, or a single one
SampleBatches == [1..BatchLen -> 0..MaxVal]
ObservedValues == SampleBatches \cup {<<v>> : v \in 0..MaxVal}

NoTerm ==
    [called |-> FALSE, fn |-> "none", u |-> "PINN", batch |-> <<>>,
     nn_params |-> 1, observed |-> <<>>, outcome |-> "none", value |-> Zero]

\* observations_loss_apply(u, (batch,), params, vmap_axes, observed_values)
ObservationsLossApply(u, tb, p, observed) ==
    /\ ~termCall.called
    /\ LET r == observations_loss_apply(u, <<tb>>, p, {}, observed)
       IN  termCall' = [called |-> TRUE, fn |-> "observations", u |-> u, batch |-> tb,
                    nn_params |-> p.nn_params, observed |-> observed,
                    outcome |-> r.outcome, value |-> r.value]
    /\ UNCHANGED <<odeVars, sysVars, bc, s2s>>

\* sobolev_reg_apply(u, (batch,), params, vmap_axes, sobolev_reg)
SobolevRegApply(u, tb, p) ==
    /\ ~termCall.called
    /\ LET r == sobolev_reg_apply(u, <<tb>>, p, {}, "sobolev_reg")
       IN  termCall' = [called |-> TRUE, fn |-> "sobolev", u |-> u, batch |-> tb,
                    nn_params |-> p.nn_params, observed |-> <<>>,
                    outcome |-> r.outcome, value |-> r.value]
    /\ UNCHANGED <<odeVars, sysVars, bc, s2s>>

\* the result is dropped
ForgetTerm ==
    /\ termCall.called
    /\ termCall' = NoTerm
    /\ UNCHANGED <<odeVars, sysVars, bc, s2s>>

NextTerms ==
    \/ \E u \in UObjects, tb \in SampleBatches, p \in FreshParams,
          observed \in ObservedValues : ObservationsLossApply(u, tb, p, observed)
    \/ \E u \in UObjects, tb \in SampleBatches, p \in FreshParams :
            SobolevRegApply(u, tb, p)
    \/ ForgetTerm

-----------------------------------------------------------------------------
(* jinns/solver/_seq2seq.py *)

\* seq2seq["time_steps"][i], i counted from 0
TimeStep(time_steps, i) == time_steps[i + 1]

\* the state of a training: data.tmin and data.tmax of the data generator,
\* dynamic_loss_dict[k].Tmax of the loss, what the caller holds (curr_seq
\* and the Tmax_ori returned by initialize_seq2seq), the Tmax of every
\* equation before initialization (T0) and the number of updates done (n)
NoSeq ==
    [phase |-> "none", outcome |-> "none", time_steps |-> <<>>,
     tmin |-> 0, tmax |-> MaxTime, Tmax |-> <<>>, T0 |-> <<>>,
     curr_seq |-> 0, Tmax_ori |-> 0, n |-> 0]

\* the loop of lines 55-57: the Tmax of every equation, and Tmax_ori as the
\* loop leaves it (None when the loop body never ran)
RECURSIVE InitTmaxLoop(_, _, _, _)
InitTmaxLoop(ks, Tmax, tmax, ori) ==
    IF ks = <<>> THEN [Tmax |-> Tmax, Tmax_ori |-> ori]
    ELSE LET k == Head(ks)
         IN  InitTmaxLoop(Tail(ks), [Tmax EXCEPT ![k] = tmax * Tmax[k]],
                          tmax, Some(Tmax[k]))

\* initialize_seq2seq(loss, data, seq2seq) for a loss of class kind whose
\* equations have the horizons Tmax
initialize_seq2seq(kind, Tmax, time_steps) ==
    LET start == [NoSeq EXCEPT !.time_steps = time_steps, !.Tmax = Tmax,
                               !.T0 = Tmax]
        tmax == TimeStep(time_steps, 1)
        r == InitTmaxLoop(KeySeq(DOMAIN Tmax), Tmax, tmax, None)
    IN  IF kind = "SystemLossODE"
        THEN IF IsNone(r.Tmax_ori)
             THEN [start EXCEPT !.phase = "error", !.outcome = "UnboundLocalError",
                                !.tmax = tmax]
             ELSE [start EXCEPT !.phase = "run", !.outcome = "ok",
                                !.tmax = tmax, !.Tmax = r.Tmax,
                                !.Tmax_ori = Get(r.Tmax_ori)]
        ELSE IF kind = "LossPDENonStatio"
        THEN [start EXCEPT !.phase = "error", !.outcome = "RuntimeError"]
        ELSE [start EXCEPT !.phase = "error", !.outcome = "UnboundLocalError"]

\* update_seq2seq_SystemLossODE moving the window to time_steps[curr_seq]
update_seq2seq_SystemLossODE_SameWindow(st) ==
    LET curr_seq == st.curr_seq + 1
        tmax == TimeStep(st.time_steps, curr_seq)
    IN  [st EXCEPT !.curr_seq = curr_seq,
                   !.n = @ + 1,
                   !.tmax = tmax,
                   !.Tmax = [k \in DOMAIN st.Tmax |-> tmax * st.Tmax_ori]]

\* update_seq2seq_SystemLossODE(operands), operands holding the loss, the
\* data generator, curr_seq and Tmax_ori of the training st
update_seq2seq_SystemLossODE(st) ==
    LET curr_seq == st.curr_seq + 1
    IN  IF curr_seq + 1 >= Len(st.time_steps)
        THEN [st EXCEPT !.phase = "error", !.outcome = "IndexError"]
        ELSE LET tmax == TimeStep(st.time_steps, curr_seq + 1)
             IN  [st EXCEPT !.curr_seq = curr_seq,
                            !.n = @ + 1,
                            !.tmax = tmax,
                            !.Tmax = [k \in DOMAIN st.Tmax |-> tmax * st.Tmax_ori]]

\* the schedules: strictly increasing time steps, two to MaxPhases intervals
TimeStepSeqs ==
    UNION {{ts \in [1..L -> 0..MaxTime] : \A i \in 1..(L - 1) : ts[i] < ts[i + 1]} :
              L \in 3..(MaxPhases + 1)}
\* the horizons of the equations of a loss
TmaxDicts == UNION {[S -> 1..MaxTmax] : S \in DynKeySets}
\* the classes of loss passed to initialize_seq2seq
LossClasses == {"SystemLossODE", "LossPDENonStatio", "LossODE"}

\* update_seq2seq, Tmax_ori = initialize_seq2seq(loss, data, seq2seq);
\* curr_seq = 0
InitializeSeq2seq(kind, Tmax, time_steps) ==
    /\ s2s.phase = "none"
    /\ s2s' = initialize_seq2seq(kind, Tmax, time_steps)
    /\ UNCHANGED <<odeVars, sysVars, bc, termCall>>

\* curr_seq, loss, data = update_seq2seq((loss, seq2seq, data, params,
\*                                        curr_seq, Tmax_ori))
UpdateSeq2seq ==
    /\ s2s.phase = "run"
    /\ s2s' = update_seq2seq_SystemLossODE(s2s)
    /\ UNCHANGED <<odeVars, sysVars, bc, termCall>>

\* the training ends
EndSeq2seq ==
    /\ s2s.phase # "none"
    /\ s2s' = NoSeq
    /\ UNCHANGED <<odeVars, sysVars, bc, termCall>>

NextSeq ==
    \/ \E kind \in LossClasses, Tmax \in TmaxDicts, ts \in TimeStepSeqs :
            InitializeSeq2seq(kind, Tmax, ts)
    \/ UpdateSeq2seq
    \/ EndSeq2seq

-----------------------------------------------------------------------------
(* Specifications *)

Init ==
    /\ W = AllTerms(1)
    /\ W0 = W
    /\ loss = NoLoss
    /\ params = [nn_params |-> 1, eq_params |-> [k \in EqNames |-> <<1>>]]
    /\ params0 = params
    /\ lastEval = NoEval
    /\ odeOp = "none"
    /\ odeIn = NoOdeIn
    /\ copy = NoCopy
    /\ sys = NoSys
    /\ sysOp = NoSysOp
    /\ sparams = [nn_keys |-> NNShared, nn_params |-> 1,
                  eq_params |-> [k \in EqNames |-> <<1>>]]
    /\ sysEval = NoSysEval
    /\ bc = NoBC
    /\ termCall = NoTerm
    /\ s2s = NoSeq

\* LossODE: construction, evaluation
SpecODE == Init /\ [][NextODE]_vars
\* LossODE: construction, flattening and unflattening
SpecJit == Init /\ [][NextJit]_vars
\* SystemLossODE: construction, assignment of loss_weights
SpecSys == Init /\ [][NextSys]_vars
\* SystemLossODE: evaluation
SpecSysEval == Init /\ [][NextSysEval]_vars
\* boundary_condition_apply
SpecBC == Init /\ [][NextBC]_vars
\* observations_loss_apply, sobolev_reg_apply
SpecTerms == Init /\ [][NextTerms]_vars
\* seq2seq: initialization, updates
SpecSeq == Init /\ [][NextSeq]_vars

-----------------------------------------------------------------------------
(* The claims *)

SumOfBreakdown(b) ==
    RAdd(RAdd(b["dyn_loss"], b["initial_condition"]), b["observations"])

\* the arguments of the last SystemLossODE.evaluate call were well formed:
\* nn_params shared or keyed like u_dict, a weight for every term, at least
\* one equation
SysEvalWellFormed ==
    /\ sysEval.called
    /\ sysEval.pre.nn_keys.dict => sysEval.pre.nn_keys.keys = sys.u_dict
    /\ Terms \subseteq DOMAIN sys.loss_weights
    /\ sys.dynamic_loss_dict # {}

\* C1: every evaluate call, of a LossODE or of a SystemLossODE, returns a
\* total equal to the sum of the values of the breakdown returned with it.
C1_TotalIsSumOfBreakdown ==
    /\ lastEval.called =>
        /\ lastEval.outcome = "return"
        /\ lastEval.total = SumOfBreakdown(lastEval.breakdown)
    /\ SysEvalWellFormed =>
        /\ sysEval.outcome = "return"
        /\ sysEval.total = SumOfBreakdown(sysEval.breakdown)

\* C2: LossODE.evaluate returns a contribution of exactly 0 for every term
\* whose data is absent, whatever the weight of the term; with a dynamics
\* operator, no initial condition and no observations the total is the
\* dynamics term and the breakdown has exactly the three keys.
C2_AbsentTermsAreZero ==
    lastEval.called =>
        /\ lastEval.outcome = "return"
        /\ DOMAIN lastEval.breakdown = Terms
        /\ IsNone(loss.dynamic_loss) => lastEval.breakdown["dyn_loss"] = Zero
        /\ IsNone(loss.initial_condition) =>
                lastEval.breakdown["initial_condition"] = Zero
        /\ IsNone(loss.obs_batch) => lastEval.breakdown["observations"] = Zero
        /\ (IsNone(loss.initial_condition) /\ IsNone(loss.obs_batch)) =>
                lastEval.total = lastEval.breakdown["dyn_loss"]

\* C2's case: an evaluation with a dynamics operator, a nonzero dynamics
\* term, no initial condition although its weight is not 0, no observations
C2_Witness ==
    /\ lastEval.called
    /\ ~IsNone(loss.dynamic_loss)
    /\ IsNone(loss.initial_condition)
    /\ IsNone(loss.obs_batch)
    /\ W["initial_condition"] = MaxWeight
    /\ lastEval.breakdown["dyn_loss"] # Zero

\* C3: after construction the stored weight of every term whose data is
\* absent is 0: in a LossODE for the initial condition and the observations,
\* in a SystemLossODE for every solution key without initial condition /
\* without observations.
C3_AbsentDataWeightZero ==
    /\ loss.built =>
        /\ IsNone(loss.initial_condition) => W["initial_condition"] = 0
        /\ IsNone(loss.obs_batch) => W["observations"] = 0
    /\ (sys.built /\ sysOp.op = "init") =>
        \A k \in sys.u_dict :
            /\ (IsNone(sys.initial_condition_dict[k])
                    /\ "initial_condition" \in DOMAIN sys.loss_weights)
                => sys.loss_weights["initial_condition"][k] = Num(0)
            /\ (IsNone(sys.obs_batch_dict[k])
                    /\ "observations" \in DOMAIN sys.loss_weights)
                => sys.loss_weights["observations"][k] = Num(0)

\* C4: evaluate leaves the params mapping it was given as it was.
C4_EvaluateLeavesParams ==
    /\ lastEval.called => params = lastEval.pre
    /\ sysEval.called => sparams = sysEval.pre

\* C5: what evaluate(params, B) returns does not depend on the calls made
\* before: it is what a first call with the params mapping as the caller
\* made it returns.
C5_EvaluateIndependentOfHistory ==
    lastEval.called =>
        LET first == LossODE_evaluate(loss, W, params0, lastEval.batch)
        IN  /\ lastEval.total = first.total
            /\ lastEval.breakdown = first.breakdown

\* C6: a SystemLossODE constructed with an initial_condition_dict or an
\* obs_batch_dict whose key set differs from u_dict's raises ValueError and
\* no object exists; an omitted dictionary is replaced by one with u_dict's
\* keys and all values None.
C6_KeyMismatchRaises ==
    sysOp.op = "init" =>
        /\ (sysOp.obsDiffer \/ sysOp.icDiffer) =>
                (sysOp.outcome = "ValueError" /\ ~sys.built)
        /\ (sysOp.outcome = "ok" /\ sysOp.obsOmitted) =>
                sys.obs_batch_dict = [k \in sys.u_dict |-> None]
        /\ (sysOp.outcome = "ok" /\ sysOp.icOmitted) =>
                sys.initial_condition_dict = [k \in sys.u_dict |-> None]

\* C6's case: a construction refused for the keys of initial_condition_dict
\* alone
C6_Witness ==
    /\ sysOp.op = "init"
    /\ sysOp.icDiffer
    /\ ~sysOp.obsDiffer
    /\ ~sysOp.vector
    /\ ~sysOp.keyMismatch
    /\ sysOp.outcome = "ValueError"

CoupledDynSum(self, p, batch) ==
    LET ks == KeySeq(self.dynamic_loss_dict)
    IN  RSeqSum([i \in 1..Len(ks) |->
            MeanSumSq(DynOpOf(ks[i]), batch.temporal_batch, p,
                      GetVmapInAxesParams(batch.param_batch_dict, p))])
C8_DynLossIsCoupledSum ==
    SysEvalWellFormed =>
        LET dyn == CoupledDynSum(sys, MergeParamBatch(sysEval.pre, sysEval.batch),
                                 sysEval.batch)
        IN  /\ sysEval.outcome = "return"
            /\ sysEval.breakdown["dyn_loss"] = dyn
            /\ sysEval.total =
                 RAdd(dyn, RAdd(sysEval.breakdown["initial_condition"],
                                sysEval.breakdown["observations"]))

\* C9: the dynamics term of LossODE.evaluate is loss_weights["dyn_loss"]
\* times the mean over the samples of the summed squared residuals.
C9_DynLossWeighted ==
    (lastEval.called /\ lastEval.outcome = "return" /\ ~IsNone(loss.dynamic_loss)) =>
        lastEval.breakdown["dyn_loss"] =
            RScale(W["dyn_loss"],
                   MeanSumSq(Get(loss.dynamic_loss), lastEval.batch.temporal_batch,
                             MergeParamBatch(lastEval.pre, lastEval.batch),
                             IF loss.u = "PINN"
                             THEN GetVmapInAxesParams(
                                    lastEval.batch.param_batch_dict, lastEval.pre)
                             ELSE {}))

\* C10: boundary_condition_apply iterates 2 facets for a trailing dimension
\* of 2 and 4 facets for a trailing dimension of 4, and raises for any other
\* trailing dimension, with a dict of facets and with a single condition.
C10_FacetsOrRaise ==
    bc.called =>
        /\ (bc.dim \in {2, 4} /\ bc.outcome = "return" /\ ~bc.isDict) =>
                Cardinality(bc.facets) = bc.dim
        /\ (bc.dim \in {2, 4} /\ bc.outcome = "return" /\ bc.isDict) =>
                bc.facets \subseteq 0..(bc.dim - 1)
        /\ bc.dim \notin {2, 4} => bc.outcome # "return"

\* C11: a LossODE construction raises ValueError exactly when
\* initial_condition is neither None nor a tuple of length 2, and a
\* construction that raises leaves the loss_weights dict it was given with
\* the contents it had.
C11_InitialConditionChecked ==
    odeOp # "none" =>
        LET ic == odeIn.ic
            accepted == IsNone(ic) \/ (Get(ic).tuple /\ Len(Get(ic).items) = 2)
        IN  /\ (odeOp = "ValueError") <=> ~accepted
            /\ (odeOp = "ok") <=> accepted
            /\ odeOp = "ValueError" => W = odeIn.w

\* C11's case: a construction with a tuple of length 3 and no obs_batch,
\* on a dict whose observations weight is not 0, has raised
C11_Witness ==
    /\ odeOp = "ValueError"
    /\ ~IsNone(odeIn.ic)
    /\ Get(odeIn.ic).tuple
    /\ Len(Get(odeIn.ic).items) = 3
    /\ odeIn.obsNone
    /\ odeIn.w["observations"] = MaxWeight

\* C20: a LossODE construction leaves the loss_weights dict of the caller
\* with the contents the caller put in it; in particular a LossODE built with
\* observations has as observations weight the value the caller put in the
\* dict, also when an earlier LossODE without observations was built from the
\* same dict.
C20_ConstructionLeavesWeights ==
    /\ odeOp = "ok" => W = odeIn.w
    /\ (loss.built /\ ~IsNone(loss.obs_batch)) =>
            W["observations"] = W0["observations"]

\* C12: SystemLossODE.evaluate raises ValueError whenever
\* params_dict["nn_params"] is a dict whose keys differ from u_dict's, with
\* params_dict left as it was given; when nn_params is not a dict the call
\* never raises ValueError.
C12_NNParamsKeysChecked ==
    sysEval.called =>
        LET nn == sysEval.pre.nn_keys
        IN  /\ (nn.dict /\ nn.keys # sys.u_dict) =>
                    /\ sysEval.outcome = "ValueError"
                    /\ sparams = sysEval.pre
            /\ ~nn.dict => sysEval.outcome # "ValueError"
            /\ (nn.dict /\ nn.keys = sys.u_dict) => sysEval.outcome # "ValueError"

\* C12's case: a call with nn_params keyed by more keys than u_dict and a
\* parameter batch that differs from eq_params has raised ValueError
C12_Witness ==
    /\ sysEval.called
    /\ sysEval.pre.nn_keys = NNDict(Keys)
    /\ ~IsNone(sysEval.batch.param_batch_dict)
    /\ MergeParamBatch(sysEval.pre, sysEval.batch) # sysEval.pre
    /\ sysEval.outcome = "ValueError"

\* C13: observations_loss_apply and sobolev_reg_apply called with a SPINN
\* raise RuntimeError ("not yet implemented for SPINNs") and return no
\* number; called with a PINN both return a scalar.
C13_UnsupportedTermRaises ==
    termCall.called =>
        /\ termCall.u = "SPINN" => termCall.outcome = "RuntimeError"
        /\ termCall.u = "PINN" =>
                /\ termCall.outcome = "return"
                /\ termCall.value.n \in Nat
                /\ termCall.value.d \in Nat \ {0}

\* C13's case: the observation term was requested for a SPINN
C13_Witness ==
    /\ termCall.called
    /\ termCall.fn = "observations"
    /\ termCall.u = "SPINN"
    /\ termCall.outcome = "RuntimeError"

\* the last construction was given well-formed arguments apart from
\* derivative_keys_dict
OnlyDerivativeKeysAtStake ==
    /\ sysOp.op = "init"
    /\ ~sysOp.obsDiffer
    /\ ~sysOp.icDiffer
    /\ ~sysOp.vector
    /\ ~sysOp.keyMismatch

\* C14: a SystemLossODE constructed with a derivative_keys_dict that has the
\* keys of dynamic_loss_dict but not every key of u_dict is built, and the
\* internal LossODE of every solution without entry has the default
\* derivative keys, ["nn_params"] for every term.
C14_MissingDerivativeKeysDefault ==
    (/\ OnlyDerivativeKeysAtStake
     /\ ~IsNone(sysOp.dkKeys)
     /\ sysOp.dynKeys \subseteq Get(sysOp.dkKeys)
     /\ ~(UKeys \subseteq Get(sysOp.dkKeys)))
        => /\ sysOp.outcome = "ok"
           /\ sys.built
           /\ \A k \in sys.u_dict \ Get(sysOp.dkKeys) :
                sys.u_constraints_dict[k].loss.derivative_keys
                    = AllTerms({"nn_params"})

\* C15: a SystemLossODE constructed with a derivative_keys_dict whose key
\* set is not u_dict's key set, a key missing or a key more, raises and no
\* object exists.
C15_DerivativeKeysMismatchRaises ==
    (/\ sysOp.op = "init"
     /\ ~IsNone(sysOp.dkKeys)
     /\ Get(sysOp.dkKeys) # UKeys)
        => /\ sysOp.outcome \notin {"ok", "none"}
           /\ ~sys.built

\* C16: after a construction and after every accepted assignment of
\* loss_weights every stored entry is a dict over the keys of
\* dynamic_loss_dict for dyn_loss and over the keys of u_dict for every other
\* term, the zeros written for lack of data included; a term given one
\* weight has that weight for every key, unless zeros were written over it.
C16_StoredWeightsPerKey ==
    (sysOp.op \in {"init", "set"} /\ sysOp.outcome = "ok") =>
        /\ \A t \in DOMAIN sys.loss_weights :
                DOMAIN sys.loss_weights[t] =
                    (IF t = "dyn_loss" THEN sys.dynamic_loss_dict ELSE sys.u_dict)
        /\ \A t \in DOMAIN sysOp.scalars :
                /\ t \in DOMAIN sys.loss_weights
                /\ \/ \A k \in DOMAIN sys.loss_weights[t] :
                          sys.loss_weights[t][k] = sysOp.scalars[t]
                   \/ /\ t = "observations" /\ AllNone(sys.obs_batch_dict)
                      /\ \A k \in sys.u_dict : sys.loss_weights[t][k] = Num(0)
                   \/ /\ t = "initial_condition"
                      /\ AllNone(sys.initial_condition_dict)
                      /\ \A k \in sys.u_dict : sys.loss_weights[t][k] = Num(0)
        /\ AllNone(sys.obs_batch_dict) =>
                sys.loss_weights["observations"] = [k \in sys.u_dict |-> Num(0)]
        /\ AllNone(sys.initial_condition_dict) =>
                sys.loss_weights["initial_condition"] = [k \in sys.u_dict |-> Num(0)]

\* C16's case: an accepted assignment after construction, to a system with
\* one equation, two solutions and no observations, of one weight MaxWeight
\* for dyn_loss
C16_Witness ==
    /\ sysOp.op = "set"
    /\ sysOp.outcome = "ok"
    /\ sys.dynamic_loss_dict = {"x"}
    /\ sys.u_dict = UKeys
    /\ AllNone(sys.obs_batch_dict)
    /\ ~AllNone(sys.initial_condition_dict)
    /\ "dyn_loss" \in DOMAIN sysOp.scalars
    /\ sysOp.scalars["dyn_loss"] = Num(MaxWeight)
    /\ sys.loss_weights["dyn_loss"] = [k \in {"x"} |-> Num(MaxWeight)]

\* C17: after initialize_seq2seq and n updates, each given the curr_seq
\* the one before returned, data.tmax is time_steps[n + 1] and curr_seq is n;
\* every update increases curr_seq by exactly 1 and data.tmax strictly, and
\* data.tmin is never changed.
C17_HorizonWidens ==
    /\ [](s2s.phase = "run" =>
            /\ s2s.tmax = TimeStep(s2s.time_steps, s2s.n + 1)
            /\ s2s.curr_seq = s2s.n
            /\ s2s.tmin = NoSeq.tmin)
    /\ [][(s2s.phase = "run" /\ s2s'.phase = "run") =>
            /\ s2s'.curr_seq = s2s.curr_seq + 1
            /\ s2s'.tmax > s2s.tmax
            /\ s2s'.tmin = s2s.tmin]_vars

\* C17's case: two updates were made after the initialization
C17_Witness ==
    /\ s2s.phase = "run"
    /\ s2s.n = 2
    /\ s2s.curr_seq = 2
    /\ s2s.tmax = TimeStep(s2s.time_steps, 3)

\* C18: after initialize_seq2seq and n >= 0 updates the Tmax of every
\* equation k is time_steps[n + 1] times the Tmax equation k had before the
\* initialization.
C18_TmaxPerEquation ==
    s2s.phase = "run" =>
        \A k \in DOMAIN s2s.Tmax :
            s2s.Tmax[k] = TimeStep(s2s.time_steps, s2s.n + 1) * s2s.T0[k]

\* C19: the LossODE rebuilt by tree_unflatten from what tree_flatten returns
\* has the u, dynamic_loss, obs_slice, initial_condition, obs_batch,
\* loss_weights and derivative_keys of the loss that was flattened.
C19_FlattenRoundTrip ==
    copy.made =>
        /\ copy.loss.u = loss.u
        /\ copy.loss.dynamic_loss = loss.dynamic_loss
        /\ copy.loss.obs_slice = loss.obs_slice
        /\ copy.loss.initial_condition = loss.initial_condition
        /\ copy.loss.obs_batch = loss.obs_batch
        /\ copy.w = W
        /\ copy.loss.derivative_keys = loss.derivative_keys

\* C21: an assignment of loss_weights to a constructed SystemLossODE that
\* raises ValueError leaves the stored weights as they were before it, every
\* term still there.
C21_RejectedAssignmentKeepsWeights ==
    [][(sys.built /\ sysOp'.op = "set" /\ sysOp'.outcome = "ValueError") =>
            /\ DOMAIN sys'.loss_weights = DOMAIN sys.loss_weights
            /\ sys'.loss_weights = sys.loss_weights]_vars

====
